---- MODULE Spec2Model ----
(***************************************************************************)
(* Model of piff (src/piff.py): the edit_distance routine, the patch text  *)
(* decoder and the patch application loop of PatchSubcommand.run.          *)
(*                                                                         *)
(* Spec      : edit_distance(s1, s2) run statement by statement, up to     *)
(*             its return.                                                 *)
(* PatchSpec : PatchSubcommand.run on a target file and a patch file,      *)
(*             both given as texts (sequences of characters).              *)
(***************************************************************************)
EXTENDS Integers, Sequences, FiniteSets

VARIABLES
    pc,           \* position in the code
    s1, s2,       \* arguments of edit_distance
    distances,    \* edit_distance: cost table
    actions,      \* edit_distance: action table
    n1, n2,       \* edit_distance: loop variables
    iters,        \* edit_distance: iterations of the backtrace loop so far
    patch,        \* the list of (action, row, line) tuples
    lines,        \* PatchSubcommand.run: the list being patched
    k,            \* PatchSubcommand.run: operations of reversed(patch) left
    fileContent,  \* text of the file at file_path
    patchContent, \* text of the file at patch_path
    patchLines,   \* read_entire_file(patch_path)
    row,          \* enumerate index of the decoding loop
    ok,           \* PatchSubcommand.run: ok
    output,       \* lines printed by the decoding loop
    exitCode      \* process exit code, -1 while running

vars == <<pc, s1, s2, distances, actions, n1, n2, iters, patch, lines, k,
          fileContent, patchContent, patchLines, row, ok, output, exitCode>>

engineVars == <<s1, s2, distances, actions, n1, n2, iters>>
fileVars == <<fileContent, patchContent, patchLines, row, ok, output, exitCode>>

----------------------------------------------------------------------------
(* Bounds *)

MaxLen == 3
MaxFileLines == 3
MaxPatchLines == 3

(* Lines handed to edit_distance: opaque values compared by equality. *)
Lines == {"x", "y", "z"}

SeqsUpTo(S, n) == UNION {[1..len -> S] : len \in 0..n}

----------------------------------------------------------------------------
(* Action tags *)

IGNORE == "I"
ADD == "A"
REMOVE == "R"
UNSET == "-"

Reverse(s) == [i \in 1..Len(s) |-> s[Len(s) + 1 - i]]

----------------------------------------------------------------------------
(* edit_distance *)

(* lines 29-36: both tables allocated, cell (0, 0) set *)
AllocDistances(m1, m2) == [i \in 0..m1 |-> [j \in 0..m2 |-> 0]]
AllocActions(m1, m2) ==
    [i \in 0..m1 |-> [j \in 0..m2 |-> IF i = 0 /\ j = 0 THEN IGNORE ELSE UNSET]]

(* lines 38-41: the loop over the first row *)
FirstRowDistances(d, m2) ==
    [d EXCEPT ![0] = [j \in 0..m2 |-> IF j >= 1 THEN j ELSE d[0][j]]]
FirstRowActions(a, m2) ==
    [a EXCEPT ![0] = [j \in 0..m2 |-> IF j >= 1 THEN ADD ELSE a[0][j]]]

(* lines 43-46: the loop over the first column *)
FirstColumnDistances(d, m1) ==
    [i \in 0..m1 |-> IF i >= 1 THEN [d[i] EXCEPT ![0] = i] ELSE d[i]]
FirstColumnActions(a, m1) ==
    [i \in 0..m1 |-> IF i >= 1 THEN [a[i] EXCEPT ![0] = REMOVE] ELSE a[i]]

(* lines 50-65: one cell of the table, as [dist, act] *)
(* faulty variant: the add cost is never considered *)
ComputeCellNoAdd(d, a1, a2, i, j) ==
    IF a1[i] = a2[j]
    THEN [dist |-> d[i - 1][j - 1], act |-> IGNORE]
    ELSE [dist |-> d[i - 1][j] + 1, act |-> REMOVE]

(* faulty variant: a tie goes to Add (>= for >) *)
ComputeCellAddOnTie(d, a1, a2, i, j) ==
    IF a1[i] = a2[j]
    THEN [dist |-> d[i - 1][j - 1], act |-> IGNORE]
    ELSE LET remove == d[i - 1][j]
             add == d[i][j - 1]
         IN  IF remove >= add
             THEN [dist |-> add + 1, act |-> ADD]
             ELSE [dist |-> remove + 1, act |-> REMOVE]

ComputeCell(d, a1, a2, i, j) ==
    IF a1[i] = a2[j]
    THEN [dist |-> d[i - 1][j - 1], act |-> IGNORE]
    ELSE LET remove == d[i - 1][j]
             add == d[i][j - 1]
         IN  IF remove > add
             THEN [dist |-> add + 1, act |-> ADD]
             ELSE [dist |-> remove + 1, act |-> REMOVE]

(* lines 71-82: one iteration of the backtrace loop; patch is appended to *)
(* faulty variant: the Add branch does not decrement n2 *)
BacktraceStepStuckAdd(a, a1, a2, i, j, p) ==
    LET action == a[i][j]
    IN  CASE action = ADD ->
               [n1 |-> i, n2 |-> j, patch |-> Append(p, <<ADD, j - 1, a2[j]>>),
                failed |-> FALSE]
          [] action = REMOVE ->
               [n1 |-> i - 1, n2 |-> j, patch |-> Append(p, <<REMOVE, i - 1, a1[i]>>),
                failed |-> FALSE]
          [] action = IGNORE ->
               [n1 |-> i - 1, n2 |-> j - 1, patch |-> p, failed |-> FALSE]
          [] OTHER ->
               [n1 |-> i, n2 |-> j, patch |-> p, failed |-> TRUE]

(* faulty variant: Remove records n1 as it was before the decrement *)
BacktraceStepPreDecrement(a, a1, a2, i, j, p) ==
    LET action == a[i][j]
    IN  CASE action = ADD ->
               [n1 |-> i, n2 |-> j - 1, patch |-> Append(p, <<ADD, j - 1, a2[j]>>),
                failed |-> FALSE]
          [] action = REMOVE ->
               [n1 |-> i - 1, n2 |-> j, patch |-> Append(p, <<REMOVE, i, a1[i]>>),
                failed |-> FALSE]
          [] action = IGNORE ->
               [n1 |-> i - 1, n2 |-> j - 1, patch |-> p, failed |-> FALSE]
          [] OTHER ->
               [n1 |-> i, n2 |-> j, patch |-> p, failed |-> TRUE]

(* Python indexes s1 and s2 from 0: s2[n2] after n2 -= 1 is a2[j] here,    *)
(* and the recorded index is the 0-based j - 1.                            *)
BacktraceStep(a, a1, a2, i, j, p) ==
    LET action == a[i][j]
    IN  CASE action = ADD ->
               [n1 |-> i, n2 |-> j - 1, patch |-> Append(p, <<ADD, j - 1, a2[j]>>),
                failed |-> FALSE]
          [] action = REMOVE ->
               [n1 |-> i - 1, n2 |-> j, patch |-> Append(p, <<REMOVE, i - 1, a1[i]>>),
                failed |-> FALSE]
          [] action = IGNORE ->
               [n1 |-> i - 1, n2 |-> j - 1, patch |-> p, failed |-> FALSE]
          [] OTHER ->
               [n1 |-> i, n2 |-> j, patch |-> p, failed |-> TRUE]

----------------------------------------------------------------------------
(* The application loop of PatchSubcommand.run *)

(* Python integers have no width, the integers of this model stop at     *)
(* 2^31 - 1. An index below 10^9 is kept as it is. A larger one is kept   *)
(* as BelowSsize when it is below 2^63 and as AboveSsize when it is not:  *)
(* the code only ever compares an index with the length of the list and   *)
(* converts it to a C ssize_t.                                            *)
BelowSsize == 1000000000
AboveSsize == 1000000001

(* list.insert(row, line) for row >= 0: OverflowError when row does not   *)
(* fit a C ssize_t; otherwise a row past the end appends                  *)
InsertRaises(l, r) == r >= AboveSsize
ListInsert(l, r, x) ==
    LET at == IF r > Len(l) THEN Len(l) ELSE r
    IN  SubSeq(l, 1, at) \o <<x>> \o SubSeq(l, at + 1, Len(l))

(* list.pop(row) for row >= 0: IndexError when row is past the last      *)
(* element (OverflowError when it does not fit a C ssize_t)               *)
PopRaises(l, r) == r >= Len(l)
ListPop(l, r) == SubSeq(l, 1, r) \o SubSeq(l, r + 2, Len(l))

(* the operation the loop over reversed(patch) takes with c operations left *)
NextOp(p, c) == p[c]

(* lines 156-161: one operation applied, as [lines, raised] *)
ApplyOp(l, op) ==
    CASE op[1] = ADD ->
           IF InsertRaises(l, op[2])
           THEN [lines |-> l, raised |-> TRUE]
           ELSE [lines |-> ListInsert(l, op[2], op[3]), raised |-> FALSE]
      [] op[1] = REMOVE ->
           IF PopRaises(l, op[2])
           THEN [lines |-> l, raised |-> TRUE]
           ELSE [lines |-> ListPop(l, op[2]), raised |-> FALSE]
      [] OTHER -> [lines |-> l, raised |-> TRUE]

(* lines 155-161: the loop over reversed(patch) with c operations left,  *)
(* as [lines, raised]; it stops at the first exception                    *)
RECURSIVE ApplyFrom(_, _, _)
ApplyFrom(l, p, c) ==
    IF c = 0 THEN [lines |-> l, raised |-> FALSE]
    ELSE LET r == ApplyOp(l, NextOp(p, c))
         IN  IF r.raised THEN r ELSE ApplyFrom(r.lines, p, c - 1)

----------------------------------------------------------------------------
(* Texts: a file is a sequence of characters. A character outside ASCII   *)
(* is written by its code point, as in "U+0663".                           *)

NL == "\n"
CR == "\r"

(* what \d accepts in a str pattern and int() converts: the 660 Unicode    *)
(* decimal digits (category Nd), in 66 runs of ten from zero to nine      *)
DigitRuns ==
    {
      <<"0", "1", "2", "3", "4",
        "5", "6", "7", "8", "9">>,
      <<"U+0660", "U+0661", "U+0662", "U+0663", "U+0664",
        "U+0665", "U+0666", "U+0667", "U+0668", "U+0669">>,
      <<"U+06F0", "U+06F1", "U+06F2", "U+06F3", "U+06F4",
        "U+06F5", "U+06F6", "U+06F7", "U+06F8", "U+06F9">>,
      <<"U+07C0", "U+07C1", "U+07C2", "U+07C3", "U+07C4",
        "U+07C5", "U+07C6", "U+07C7", "U+07C8", "U+07C9">>,
      <<"U+0966", "U+0967", "U+0968", "U+0969", "U+096A",
        "U+096B", "U+096C", "U+096D", "U+096E", "U+096F">>,
      <<"U+09E6", "U+09E7", "U+09E8", "U+09E9", "U+09EA",
        "U+09EB", "U+09EC", "U+09ED", "U+09EE", "U+09EF">>,
      <<"U+0A66", "U+0A67", "U+0A68", "U+0A69", "U+0A6A",
        "U+0A6B", "U+0A6C", "U+0A6D", "U+0A6E", "U+0A6F">>,
      <<"U+0AE6", "U+0AE7", "U+0AE8", "U+0AE9", "U+0AEA",
        "U+0AEB", "U+0AEC", "U+0AED", "U+0AEE", "U+0AEF">>,
      <<"U+0B66", "U+0B67", "U+0B68", "U+0B69", "U+0B6A",
        "U+0B6B", "U+0B6C", "U+0B6D", "U+0B6E", "U+0B6F">>,
      <<"U+0BE6", "U+0BE7", "U+0BE8", "U+0BE9", "U+0BEA",
        "U+0BEB", "U+0BEC", "U+0BED", "U+0BEE", "U+0BEF">>,
      <<"U+0C66", "U+0C67", "U+0C68", "U+0C69", "U+0C6A",
        "U+0C6B", "U+0C6C", "U+0C6D", "U+0C6E", "U+0C6F">>,
      <<"U+0CE6", "U+0CE7", "U+0CE8", "U+0CE9", "U+0CEA",
        "U+0CEB", "U+0CEC", "U+0CED", "U+0CEE", "U+0CEF">>,
      <<"U+0D66", "U+0D67", "U+0D68", "U+0D69", "U+0D6A",
        "U+0D6B", "U+0D6C", "U+0D6D", "U+0D6E", "U+0D6F">>,
      <<"U+0DE6", "U+0DE7", "U+0DE8", "U+0DE9", "U+0DEA",
        "U+0DEB", "U+0DEC", "U+0DED", "U+0DEE", "U+0DEF">>,
      <<"U+0E50", "U+0E51", "U+0E52", "U+0E53", "U+0E54",
        "U+0E55", "U+0E56", "U+0E57", "U+0E58", "U+0E59">>,
      <<"U+0ED0", "U+0ED1", "U+0ED2", "U+0ED3", "U+0ED4",
        "U+0ED5", "U+0ED6", "U+0ED7", "U+0ED8", "U+0ED9">>,
      <<"U+0F20", "U+0F21", "U+0F22", "U+0F23", "U+0F24",
        "U+0F25", "U+0F26", "U+0F27", "U+0F28", "U+0F29">>,
      <<"U+1040", "U+1041", "U+1042", "U+1043", "U+1044",
        "U+1045", "U+1046", "U+1047", "U+1048", "U+1049">>,
      <<"U+1090", "U+1091", "U+1092", "U+1093", "U+1094",
        "U+1095", "U+1096", "U+1097", "U+1098", "U+1099">>,
      <<"U+17E0", "U+17E1", "U+17E2", "U+17E3", "U+17E4",
        "U+17E5", "U+17E6", "U+17E7", "U+17E8", "U+17E9">>,
      <<"U+1810", "U+1811", "U+1812", "U+1813", "U+1814",
        "U+1815", "U+1816", "U+1817", "U+1818", "U+1819">>,
      <<"U+1946", "U+1947", "U+1948", "U+1949", "U+194A",
        "U+194B", "U+194C", "U+194D", "U+194E", "U+194F">>,
      <<"U+19D0", "U+19D1", "U+19D2", "U+19D3", "U+19D4",
        "U+19D5", "U+19D6", "U+19D7", "U+19D8", "U+19D9">>,
      <<"U+1A80", "U+1A81", "U+1A82", "U+1A83", "U+1A84",
        "U+1A85", "U+1A86", "U+1A87", "U+1A88", "U+1A89">>,
      <<"U+1A90", "U+1A91", "U+1A92", "U+1A93", "U+1A94",
        "U+1A95", "U+1A96", "U+1A97", "U+1A98", "U+1A99">>,
      <<"U+1B50", "U+1B51", "U+1B52", "U+1B53", "U+1B54",
        "U+1B55", "U+1B56", "U+1B57", "U+1B58", "U+1B59">>,
      <<"U+1BB0", "U+1BB1", "U+1BB2", "U+1BB3", "U+1BB4",
        "U+1BB5", "U+1BB6", "U+1BB7", "U+1BB8", "U+1BB9">>,
      <<"U+1C40", "U+1C41", "U+1C42", "U+1C43", "U+1C44",
        "U+1C45", "U+1C46", "U+1C47", "U+1C48", "U+1C49">>,
      <<"U+1C50", "U+1C51", "U+1C52", "U+1C53", "U+1C54",
        "U+1C55", "U+1C56", "U+1C57", "U+1C58", "U+1C59">>,
      <<"U+A620", "U+A621", "U+A622", "U+A623", "U+A624",
        "U+A625", "U+A626", "U+A627", "U+A628", "U+A629">>,
      <<"U+A8D0", "U+A8D1", "U+A8D2", "U+A8D3", "U+A8D4",
        "U+A8D5", "U+A8D6", "U+A8D7", "U+A8D8", "U+A8D9">>,
      <<"U+A900", "U+A901", "U+A902", "U+A903", "U+A904",
        "U+A905", "U+A906", "U+A907", "U+A908", "U+A909">>,
      <<"U+A9D0", "U+A9D1", "U+A9D2", "U+A9D3", "U+A9D4",
        "U+A9D5", "U+A9D6", "U+A9D7", "U+A9D8", "U+A9D9">>,
      <<"U+A9F0", "U+A9F1", "U+A9F2", "U+A9F3", "U+A9F4",
        "U+A9F5", "U+A9F6", "U+A9F7", "U+A9F8", "U+A9F9">>,
      <<"U+AA50", "U+AA51", "U+AA52", "U+AA53", "U+AA54",
        "U+AA55", "U+AA56", "U+AA57", "U+AA58", "U+AA59">>,
      <<"U+ABF0", "U+ABF1", "U+ABF2", "U+ABF3", "U+ABF4",
        "U+ABF5", "U+ABF6", "U+ABF7", "U+ABF8", "U+ABF9">>,
      <<"U+FF10", "U+FF11", "U+FF12", "U+FF13", "U+FF14",
        "U+FF15", "U+FF16", "U+FF17", "U+FF18", "U+FF19">>,
      <<"U+104A0", "U+104A1", "U+104A2", "U+104A3", "U+104A4",
        "U+104A5", "U+104A6", "U+104A7", "U+104A8", "U+104A9">>,
      <<"U+10D30", "U+10D31", "U+10D32", "U+10D33", "U+10D34",
        "U+10D35", "U+10D36", "U+10D37", "U+10D38", "U+10D39">>,
      <<"U+11066", "U+11067", "U+11068", "U+11069", "U+1106A",
        "U+1106B", "U+1106C", "U+1106D", "U+1106E", "U+1106F">>,
      <<"U+110F0", "U+110F1", "U+110F2", "U+110F3", "U+110F4",
        "U+110F5", "U+110F6", "U+110F7", "U+110F8", "U+110F9">>,
      <<"U+11136", "U+11137", "U+11138", "U+11139", "U+1113A",
        "U+1113B", "U+1113C", "U+1113D", "U+1113E", "U+1113F">>,
      <<"U+111D0", "U+111D1", "U+111D2", "U+111D3", "U+111D4",
        "U+111D5", "U+111D6", "U+111D7", "U+111D8", "U+111D9">>,
      <<"U+112F0", "U+112F1", "U+112F2", "U+112F3", "U+112F4",
        "U+112F5", "U+112F6", "U+112F7", "U+112F8", "U+112F9">>,
      <<"U+11450", "U+11451", "U+11452", "U+11453", "U+11454",
        "U+11455", "U+11456", "U+11457", "U+11458", "U+11459">>,
      <<"U+114D0", "U+114D1", "U+114D2", "U+114D3", "U+114D4",
        "U+114D5", "U+114D6", "U+114D7", "U+114D8", "U+114D9">>,
      <<"U+11650", "U+11651", "U+11652", "U+11653", "U+11654",
        "U+11655", "U+11656", "U+11657", "U+11658", "U+11659">>,
      <<"U+116C0", "U+116C1", "U+116C2", "U+116C3", "U+116C4",
        "U+116C5", "U+116C6", "U+116C7", "U+116C8", "U+116C9">>,
      <<"U+11730", "U+11731", "U+11732", "U+11733", "U+11734",
        "U+11735", "U+11736", "U+11737", "U+11738", "U+11739">>,
      <<"U+118E0", "U+118E1", "U+118E2", "U+118E3", "U+118E4",
        "U+118E5", "U+118E6", "U+118E7", "U+118E8", "U+118E9">>,
      <<"U+11950", "U+11951", "U+11952", "U+11953", "U+11954",
        "U+11955", "U+11956", "U+11957", "U+11958", "U+11959">>,
      <<"U+11C50", "U+11C51", "U+11C52", "U+11C53", "U+11C54",
        "U+11C55", "U+11C56", "U+11C57", "U+11C58", "U+11C59">>,
      <<"U+11D50", "U+11D51", "U+11D52", "U+11D53", "U+11D54",
        "U+11D55", "U+11D56", "U+11D57", "U+11D58", "U+11D59">>,
      <<"U+11DA0", "U+11DA1", "U+11DA2", "U+11DA3", "U+11DA4",
        "U+11DA5", "U+11DA6", "U+11DA7", "U+11DA8", "U+11DA9">>,
      <<"U+16A60", "U+16A61", "U+16A62", "U+16A63", "U+16A64",
        "U+16A65", "U+16A66", "U+16A67", "U+16A68", "U+16A69">>,
      <<"U+16AC0", "U+16AC1", "U+16AC2", "U+16AC3", "U+16AC4",
        "U+16AC5", "U+16AC6", "U+16AC7", "U+16AC8", "U+16AC9">>,
      <<"U+16B50", "U+16B51", "U+16B52", "U+16B53", "U+16B54",
        "U+16B55", "U+16B56", "U+16B57", "U+16B58", "U+16B59">>,
      <<"U+1D7CE", "U+1D7CF", "U+1D7D0", "U+1D7D1", "U+1D7D2",
        "U+1D7D3", "U+1D7D4", "U+1D7D5", "U+1D7D6", "U+1D7D7">>,
      <<"U+1D7D8", "U+1D7D9", "U+1D7DA", "U+1D7DB", "U+1D7DC",
        "U+1D7DD", "U+1D7DE", "U+1D7DF", "U+1D7E0", "U+1D7E1">>,
      <<"U+1D7E2", "U+1D7E3", "U+1D7E4", "U+1D7E5", "U+1D7E6",
        "U+1D7E7", "U+1D7E8", "U+1D7E9", "U+1D7EA", "U+1D7EB">>,
      <<"U+1D7EC", "U+1D7ED", "U+1D7EE", "U+1D7EF", "U+1D7F0",
        "U+1D7F1", "U+1D7F2", "U+1D7F3", "U+1D7F4", "U+1D7F5">>,
      <<"U+1D7F6", "U+1D7F7", "U+1D7F8", "U+1D7F9", "U+1D7FA",
        "U+1D7FB", "U+1D7FC", "U+1D7FD", "U+1D7FE", "U+1D7FF">>,
      <<"U+1E140", "U+1E141", "U+1E142", "U+1E143", "U+1E144",
        "U+1E145", "U+1E146", "U+1E147", "U+1E148", "U+1E149">>,
      <<"U+1E2F0", "U+1E2F1", "U+1E2F2", "U+1E2F3", "U+1E2F4",
        "U+1E2F5", "U+1E2F6", "U+1E2F7", "U+1E2F8", "U+1E2F9">>,
      <<"U+1E950", "U+1E951", "U+1E952", "U+1E953", "U+1E954",
        "U+1E955", "U+1E956", "U+1E957", "U+1E958", "U+1E959">>,
      <<"U+1FBF0", "U+1FBF1", "U+1FBF2", "U+1FBF3", "U+1FBF4",
        "U+1FBF5", "U+1FBF6", "U+1FBF7", "U+1FBF8", "U+1FBF9">>
    }

Digits == {r[i] : r \in DigitRuns, i \in 1..10}

(* the least element of a non-empty set of integers *)
Least(S) == CHOOSE a \in S : \A b \in S : a <= b

(* the lines of text from position i on *)
RECURSIVE ReadLinesFrom(_, _)
ReadLinesFrom(text, i) ==
    IF i > Len(text) THEN <<>>
    ELSE LET breaks == {j \in i..Len(text) : text[j] \in {NL, CR}}
         IN  IF breaks = {} THEN <<SubSeq(text, i, Len(text))>>
             ELSE LET b == Least(breaks)
                      next == IF text[b] = CR /\ b < Len(text) /\ text[b + 1] = NL
                              THEN b + 2 ELSE b + 1
                  IN  <<Append(SubSeq(text, i, b - 1), NL)>> \o ReadLinesFrom(text, next)

(* open(file_path) is text mode with universal newlines: a carriage       *)
(* return followed by a line feed, and a lone carriage return, both end a *)
(* line and are delivered as one line feed. f.readlines(): every line     *)
(* keeps its terminator; a last line without one is delivered as it is.   *)
read_entire_file(text) == ReadLinesFrom(text, 1)

(* lines 164-166: every line written, followed by a terminator *)
RECURSIVE WriteLines(_)
WriteLines(l) ==
    IF l = <<>> THEN <<>> ELSE Head(l) \o <<NL>> \o WriteLines(Tail(l))

----------------------------------------------------------------------------
(* PATCH_LINE_REGEXP.match(line): one of A and R, a space, one or more   *)
(* digits, a space, then any characters but a line terminator            *)

DigitVal(c) ==
    LET run == CHOOSE r \in DigitRuns : \E i \in 1..10 : r[i] = c
    IN  (CHOOSE i \in 1..10 : run[i] = c) - 1

(* sys.get_int_max_str_digits(): int() raises ValueError on more digits *)
MaxStrDigits == 4300
IntRaises(ds) == Len(ds) > MaxStrDigits

(* the digits of 2^63 *)
TwoTo63 == <<9, 2, 2, 3, 3, 7, 2, 0, 3, 6, 8, 5, 4, 7, 7, 5, 8, 0, 8>>

(* a >= b for digit sequences of one length *)
RECURSIVE DigitsGE(_, _)
DigitsGE(a, b) ==
    IF a = <<>> THEN TRUE
    ELSE IF Head(a) # Head(b) THEN Head(a) > Head(b)
    ELSE DigitsGE(Tail(a), Tail(b))

(* the value of at most nine digit values *)
RECURSIVE ValueOf(_)
ValueOf(v) ==
    IF v = <<>> THEN 0 ELSE 10 * ValueOf(SubSeq(v, 1, Len(v) - 1)) + v[Len(v)]

(* int(digits), for digits that do not make it raise *)
ParseInt(ds) ==
    LET v == [i \in 1..Len(ds) |-> DigitVal(ds[i])]
        nonzero == {i \in 1..Len(v) : v[i] # 0}
        sig == IF nonzero = {} THEN <<>> ELSE SubSeq(v, Least(nonzero), Len(v))
    IN  IF Len(sig) <= 9 THEN ValueOf(sig)
        ELSE IF Len(sig) > 19 \/ (Len(sig) = 19 /\ DigitsGE(sig, TwoTo63)) THEN AboveSsize
        ELSE BelowSsize

(* the first index >= i of line that holds no digit (Len(line) + 1 if none) *)
DigitsEnd(line, i) ==
    LET stops == {j \in i..Len(line) : line[j] \notin Digits}
    IN  IF stops = {} THEN Len(line) + 1 ELSE Least(stops)

(* the first index >= i of line that "." does not match *)
DotEnd(line, i) ==
    LET stops == {j \in i..Len(line) : line[j] = NL}
    IN  IF stops = {} THEN Len(line) + 1 ELSE Least(stops)

NoMatch == [matched |-> FALSE, g1 |-> "", g2 |-> <<>>, g3 |-> <<>>]

(* match() anchors at the start of the line only. \d+ is followed by a    *)
(* space in the pattern, so it can only stop at the end of the digit run. *)
Match(line) ==
    IF /\ Len(line) >= 3
       /\ line[1] \in {"A", "R"}
       /\ line[2] = " "
       /\ line[3] \in Digits
    THEN LET e == DigitsEnd(line, 3)
         IN  IF e <= Len(line) /\ line[e] = " "
             THEN [matched |-> TRUE, g1 |-> line[1],
                   g2 |-> SubSeq(line, 3, e - 1),
                   g3 |-> SubSeq(line, e + 1, DotEnd(line, e + 1) - 1)]
             ELSE NoMatch
    ELSE NoMatch

(* lines 144-151: one line of the patch file decoded, as the new          *)
(* [patch, ok, output] and whether int() raised; r is the 0-based         *)
(* enumerate index                                                        *)
DecodeLine(p, o, out, r, line) ==
    IF Len(line) = 0
    THEN [patch |-> p, ok |-> o, output |-> out, raised |-> FALSE]
    ELSE LET m == Match(line)
         IN  IF ~m.matched
             THEN [patch |-> p, ok |-> FALSE,
                   output |-> Append(out, [row |-> r + 1, line |-> line]),
                   raised |-> FALSE]
             ELSE IF IntRaises(m.g2)
             THEN [patch |-> p, ok |-> o, output |-> out, raised |-> TRUE]
             ELSE [patch |-> Append(p, <<m.g1, ParseInt(m.g2), m.g3>>),
                   ok |-> o, output |-> out, raised |-> FALSE]

----------------------------------------------------------------------------
(* Inputs *)

RECURSIVE Concat(_)
Concat(ss) == IF ss = <<>> THEN <<>> ELSE Head(ss) \o Concat(Tail(ss))

FileLetters == <<"a", "b", "c">>
FileLine(i) == <<FileLetters[((i - 1) % 3) + 1], NL>>
FileOfLines(n) == Concat([i \in 1..n |-> FileLine(i)])

FileOfLinesCRLF(n) == Concat([i \in 1..n |-> <<FileLine(i)[1], CR, NL>>])
FileOfLinesCR(n) == Concat([i \in 1..n |-> <<FileLine(i)[1], CR>>])

(* target files of 0..MaxFileLines lines: terminated by line feeds, the   *)
(* last line with or without its terminator, or terminated by carriage    *)
(* return + line feed, or by carriage returns alone                       *)
FileTexts ==
    {FileOfLines(n) : n \in 0..MaxFileLines}
    \cup {SubSeq(FileOfLines(n), 1, 2 * n - 1) : n \in 1..MaxFileLines}
    \cup {FileOfLinesCRLF(n) : n \in 1..MaxFileLines}
    \cup {FileOfLinesCR(n) : n \in 1..MaxFileLines}

PatchLineChoices ==
    { <<"R", " ", "0", " ", "a", NL>>,
      <<"A", " ", "2", " ", "d", NL>>,
      <<"A", " ", "1", "0", " ", "d", NL>>,
      <<"R", " ", "3", " ", "c", CR, NL>>,
      <<"A", " ", "U+0663", " ", "d", NL>>,
      <<"A", " ", "2", NL>>,
      <<NL>> }

(* patch lines with an index of MaxStrDigits + 1 digits, of 2^63 and of   *)
(* 2^63 - 1                                                                *)
LongIndexLine ==
    <<"A", " ">> \o [i \in 1..(MaxStrDigits + 1) |-> IF i = 1 THEN "1" ELSE "0"]
        \o <<" ", "d", NL>>
LargeIndexLines ==
    { LongIndexLine,
      <<"A", " ", "9", "2", "2", "3", "3", "7", "2", "0", "3", "6", "8", "5", "4",
        "7", "7", "5", "8", "0", "8", " ", "d", NL>>,
      <<"A", " ", "9", "2", "2", "3", "3", "7", "2", "0", "3", "6", "8", "5", "4",
        "7", "7", "5", "8", "0", "7", " ", "d", NL>> }

(* such a line alone, or with a malformed or a well-formed line before    *)
(* and after it                                                           *)
LargeIndexTexts ==
    LET around == { <<>>, <<"A", " ", "2", NL>>, <<"R", " ", "0", " ", "a", NL>> }
    IN  {a \o big \o b : a \in around, b \in around, big \in LargeIndexLines}

PatchTexts ==
    {Concat(ss) : ss \in SeqsUpTo(PatchLineChoices, MaxPatchLines)} \cup LargeIndexTexts

----------------------------------------------------------------------------
(* Initial states *)

EngineIdle ==
    /\ s1 = <<>> /\ s2 = <<>>
    /\ distances = <<>> /\ actions = <<>>
    /\ n1 = 0 /\ n2 = 0 /\ iters = 0

FilesIdle ==
    /\ fileContent = <<>> /\ patchContent = <<>> /\ patchLines = <<>>
    /\ row = 0 /\ ok = TRUE /\ output = <<>> /\ exitCode = -1

Init ==
    /\ pc = "edit_distance"
    /\ s1 \in SeqsUpTo(Lines, MaxLen)
    /\ s2 \in SeqsUpTo(Lines, MaxLen)
    /\ distances = <<>> /\ actions = <<>>
    /\ n1 = 0 /\ n2 = 0 /\ iters = 0
    /\ patch = <<>> /\ lines = <<>> /\ k = 0
    /\ FilesIdle

PatchInit ==
    /\ pc = "patch"
    /\ fileContent \in FileTexts
    /\ patchContent \in PatchTexts
    /\ patchLines = <<>>
    /\ row = 0 /\ ok = TRUE /\ output = <<>> /\ exitCode = -1
    /\ patch = <<>> /\ lines = <<>> /\ k = 0
    /\ EngineIdle

----------------------------------------------------------------------------
(* edit_distance, statement by statement *)

(* lines 26-36 *)
Alloc ==
    /\ pc = "edit_distance"
    /\ distances' = AllocDistances(Len(s1), Len(s2))
    /\ actions' = AllocActions(Len(s1), Len(s2))
    /\ pc' = "first_row"
    /\ UNCHANGED <<s1, s2, n1, n2, iters, patch, lines, k, fileVars>>

(* lines 38-41 *)
InitFirstRow ==
    /\ pc = "first_row"
    /\ distances' = FirstRowDistances(distances, Len(s2))
    /\ actions' = FirstRowActions(actions, Len(s2))
    /\ pc' = "first_column"
    /\ UNCHANGED <<s1, s2, n1, n2, iters, patch, lines, k, fileVars>>

(* lines 43-46; the nested loop starts at n1 = 1, n2 = 1 *)
InitFirstColumn ==
    /\ pc = "first_column"
    /\ distances' = FirstColumnDistances(distances, Len(s1))
    /\ actions' = FirstColumnActions(actions, Len(s1))
    /\ n1' = 1 /\ n2' = 1
    /\ pc' = "fill"
    /\ UNCHANGED <<s1, s2, iters, patch, lines, k, fileVars>>

(* lines 48-65: one iteration of the inner loop *)
FillCell ==
    /\ pc = "fill"
    /\ n1 <= Len(s1) /\ n2 <= Len(s2)
    /\ LET c == ComputeCell(distances, s1, s2, n1, n2)
       IN  /\ distances' = [distances EXCEPT ![n1][n2] = c.dist]
           /\ actions' = [actions EXCEPT ![n1][n2] = c.act]
    /\ IF n2 < Len(s2)
       THEN n1' = n1 /\ n2' = n2 + 1
       ELSE n1' = n1 + 1 /\ n2' = 1
    /\ UNCHANGED <<pc, s1, s2, iters, patch, lines, k, fileVars>>

(* the nested loop is over (no rows left, or no columns at all); 67-69 *)
FillDone ==
    /\ pc = "fill"
    /\ (n1 > Len(s1) \/ Len(s2) = 0)
    /\ patch' = <<>>
    /\ n1' = Len(s1) /\ n2' = Len(s2)
    /\ iters' = 0
    /\ pc' = "backtrace"
    /\ UNCHANGED <<s1, s2, distances, actions, lines, k, fileVars>>

(* lines 70-82: one iteration of the while loop *)
Backtrace ==
    /\ pc = "backtrace"
    /\ (n1 > 0 \/ n2 > 0)
    /\ LET r == BacktraceStep(actions, s1, s2, n1, n2, patch)
       IN  /\ n1' = r.n1 /\ n2' = r.n2 /\ patch' = r.patch
           /\ pc' = IF r.failed THEN "assertion_failed" ELSE "backtrace"
    /\ iters' = iters + 1
    /\ UNCHANGED <<s1, s2, distances, actions, lines, k, fileVars>>

(* lines 83-84 *)
Return ==
    /\ pc = "backtrace"
    /\ ~(n1 > 0 \/ n2 > 0)
    /\ patch' = Reverse(patch)
    /\ pc' = "returned"
    /\ UNCHANGED <<s1, s2, distances, actions, n1, n2, iters, lines, k, fileVars>>

----------------------------------------------------------------------------
(* PatchSubcommand.run *)

(* lines 140-143 *)
ReadFiles ==
    /\ pc = "patch"
    /\ lines' = read_entire_file(fileContent)
    /\ patchLines' = read_entire_file(patchContent)
    /\ patch' = <<>>
    /\ ok' = TRUE
    /\ row' = 0
    /\ pc' = "decode"
    /\ UNCHANGED <<engineVars, k, fileContent, patchContent, output, exitCode>>

(* lines 143-151: one iteration of the decoding loop; a ValueError of    *)
(* int() leaves run() by an exception, the interpreter exits with code 1 *)
Decode ==
    /\ pc = "decode"
    /\ row < Len(patchLines)
    /\ LET r == DecodeLine(patch, ok, output, row, patchLines[row + 1])
       IN  IF r.raised
           THEN /\ pc' = "raised"
                /\ exitCode' = 1
                /\ UNCHANGED <<patch, ok, output, row>>
           ELSE /\ patch' = r.patch /\ ok' = r.ok /\ output' = r.output
                /\ row' = row + 1
                /\ UNCHANGED <<pc, exitCode>>
    /\ UNCHANGED <<engineVars, lines, k, fileContent, patchContent, patchLines>>

(* lines 152-153 *)
DecodeFailed ==
    /\ pc = "decode"
    /\ row = Len(patchLines)
    /\ ~ok
    /\ exitCode' = 1
    /\ pc' = "done"
    /\ UNCHANGED <<engineVars, patch, lines, k, fileContent, patchContent,
                   patchLines, row, ok, output>>

(* line 155: the loop over reversed(patch) starts *)
DecodeDone ==
    /\ pc = "decode"
    /\ row = Len(patchLines)
    /\ ok
    /\ k' = Len(patch)
    /\ pc' = "apply"
    /\ UNCHANGED <<engineVars, patch, lines, fileVars>>

(* lines 155-161: one iteration; an IndexError, an OverflowError or a    *)
(* failed assertion leaves run() by an exception, the interpreter exits  *)
(* with code 1                                                           *)
Apply ==
    /\ pc = "apply"
    /\ k > 0
    /\ LET r == ApplyOp(lines, NextOp(patch, k))
       IN  IF r.raised
           THEN /\ pc' = "raised"
                /\ exitCode' = 1
                /\ UNCHANGED <<lines, k>>
           ELSE /\ lines' = r.lines
                /\ k' = k - 1
                /\ UNCHANGED <<pc, exitCode>>
    /\ UNCHANGED <<engineVars, patch, fileContent, patchContent, patchLines,
                   row, ok, output>>

(* lines 163-167 *)
WriteFile ==
    /\ pc = "apply"
    /\ k = 0
    /\ fileContent' = WriteLines(lines)
    /\ exitCode' = 0
    /\ pc' = "done"
    /\ UNCHANGED <<engineVars, patch, lines, k, patchContent, patchLines,
                   row, ok, output>>

----------------------------------------------------------------------------

Next ==
    \/ Alloc
    \/ InitFirstRow
    \/ InitFirstColumn
    \/ FillCell
    \/ FillDone
    \/ Backtrace
    \/ Return

Spec == Init /\ [][Next]_vars

PatchNext ==
    \/ ReadFiles
    \/ Decode
    \/ DecodeFailed
    \/ DecodeDone
    \/ Apply
    \/ WriteFile

PatchSpec == PatchInit /\ [][PatchNext]_vars

----------------------------------------------------------------------------
(* Helpers of the properties *)

(* edit_distance has returned *)
Returned == pc = "returned"

(* the list the loop of lines 155-161 holds when c operations of p are   *)
(* left, started on l                                                    *)
RECURSIVE LinesWhen(_, _, _)
LinesWhen(l, p, c) ==
    IF c = Len(p) THEN l ELSE ApplyOp(LinesWhen(l, p, c + 1), NextOp(p, c + 1)).lines

Min(a, b) == IF a < b THEN a ELSE b

(* u is a subsequence of v *)
RECURSIVE IsSubseq(_, _)
IsSubseq(u, v) ==
    IF u = <<>> THEN TRUE
    ELSE IF v = <<>> THEN FALSE
    ELSE IF Head(u) = Head(v) THEN IsSubseq(Tail(u), Tail(v))
    ELSE IsSubseq(u, Tail(v))

(* the elements of s at the indices in S, in order *)
RECURSIVE Pick(_, _, _)
Pick(s, S, i) ==
    IF i > Len(s) THEN <<>>
    ELSE IF i \in S THEN <<s[i]>> \o Pick(s, S, i + 1)
    ELSE Pick(s, S, i + 1)

(* length of a longest common subsequence, by enumeration *)
LcsLen(u, v) ==
    LET sizes == {Cardinality(S) : S \in {T \in SUBSET (1..Len(u)) : IsSubseq(Pick(u, T, 1), v)}}
    IN  CHOOSE c \in sizes : \A e \in sizes : e <= c

(* an index that is out of bounds for l at the moment op executes *)
OutOfBounds(op, l) ==
    IF op[1] = ADD THEN op[2] \notin 0..Len(l) ELSE op[2] \notin 0..(Len(l) - 1)

(* a line without its terminator *)
Chomp(line) ==
    IF Len(line) > 0 /\ line[Len(line)] = NL THEN SubSeq(line, 1, Len(line) - 1) ELSE line
ChompAll(l) == [i \in 1..Len(l) |-> Chomp(l[i])]

(* the grammar of a patch line, stated by its shape *)
WellFormed(line) ==
    /\ Len(line) >= 4
    /\ line[1] \in {"A", "R"}
    /\ line[2] = " "
    /\ \E e \in 4..Len(line) :
          /\ line[e] = " "
          /\ \A i \in 3..(e - 1) : line[i] \in Digits

IsBlank(line) == Chomp(line) = <<>>

(* a line that is not blank and does not fit the grammar *)
IsMalformed(line) == ~IsBlank(line) /\ ~WellFormed(line)

(* the entries of the report out that name line r *)
ReportsOf(out, r) == {j \in 1..Len(out) : out[j].row = r}

(* strict replay: deleting at the indices in S, highest first *)
RECURSIVE DeleteDescending(_, _)
DeleteDescending(l, S) ==
    IF S = {} THEN l
    ELSE LET mx == CHOOSE i \in S : \A j \in S : j <= i
         IN  IF mx >= Len(l) THEN <<"invalid">>
             ELSE DeleteDescending(SubSeq(l, 1, mx) \o SubSeq(l, mx + 2, Len(l)), S \ {mx})

(* strict replay: inserting the <<index, line>> pairs of S, lowest index first *)
RECURSIVE InsertAscending(_, _)
InsertAscending(l, S) ==
    IF S = {} THEN l
    ELSE LET mn == CHOOSE a \in S : \A b \in S : a[1] <= b[1]
         IN  IF mn[1] > Len(l) THEN <<"invalid">>
             ELSE InsertAscending(SubSeq(l, 1, mn[1]) \o <<mn[2]>> \o SubSeq(l, mn[1] + 1, Len(l)),
                                  S \ {mn})

RemoveOps(p) == SelectSeq(p, LAMBDA o : o[1] = REMOVE)
AddOps(p) == SelectSeq(p, LAMBDA o : o[1] = ADD)
RemoveIndices(p) == {RemoveOps(p)[i][2] : i \in 1..Len(RemoveOps(p))}
AddPairs(p) == {<<AddOps(p)[i][2], AddOps(p)[i][3]>> : i \in 1..Len(AddOps(p))}

ReplaySeparately(l, p) == InsertAscending(DeleteDescending(l, RemoveIndices(p)), AddPairs(p))

----------------------------------------------------------------------------
(* Properties *)

(* C1: applying edit_distance(s1, s2) to s1 the way the patch step does    *)
(* (operations in reverse script order, Add inserting at its index,        *)
(* Remove deleting at its index) yields exactly s2.                        *)
RoundTrip ==
    Returned => ApplyFrom(s1, patch, Len(patch)) = [lines |-> s2, raised |-> FALSE]

(* C2: the number of operations of edit_distance(s1, s2) is                *)
(* len(s1) + len(s2) - 2 * (length of a longest common subsequence).       *)
Minimality ==
    Returned => Len(patch) = Len(s1) + Len(s2) - 2 * LcsLen(s1, s2)

MinimalityWitness ==
    /\ pc = "returned"
    /\ s1 = <<"x", "y", "z">> /\ s2 = <<"y", "x", "z">>
    /\ Len(patch) = 2

(* C3, the source a, b, c patched with the script Remove(0, a), Add(2, d)  *)
C3Case ==
    /\ pc = "apply"
    /\ fileContent = FileOfLines(3)
    /\ patch = << <<REMOVE, 0, <<"a">> >>, <<ADD, 2, <<"d">> >> >>

(* C3: the script is replayed in the reverse of its textual order and      *)
(* that replay of Remove(0, a), Add(2, d) on a, b, c yields b, c, d.       *)
DescendingYieldsBCD ==
    (C3Case /\ k = 0) => ChompAll(lines) = << <<"b">>, <<"c">>, <<"d">> >>

(* C4: while edit_distance(s1, s2) is applied to s1 in reverse script      *)
(* order, every Add index is in [0, current length] and every Remove       *)
(* index in [0, current length - 1] at the moment the operation executes.  *)
ScriptIndicesValid ==
    Returned =>
       \A c \in 1..Len(patch) : ~OutOfBounds(NextOp(patch, c), LinesWhen(s1, patch, c))

(* C5: in every cell (i, j) with i, j >= 1 and s1[i-1] # s2[j-1] the cost  *)
(* is min(C[i-1][j], C[i][j-1]) + 1 and the action is Add only when        *)
(* C[i][j-1] < C[i-1][j], otherwise Remove; edit_distance([x, y], [y, x])  *)
(* is the one script Add(0, y), Remove(1, y).                              *)
TieBreak ==
    /\ (pc = "backtrace" \/ Returned) =>
          \A i \in 1..Len(s1), j \in 1..Len(s2) :
             s1[i] # s2[j] =>
                /\ distances[i][j] = Min(distances[i - 1][j], distances[i][j - 1]) + 1
                /\ actions[i][j] =
                      IF distances[i][j - 1] < distances[i - 1][j] THEN ADD ELSE REMOVE
    /\ (Returned /\ s1 = <<"x", "y">> /\ s2 = <<"y", "x">>) =>
          patch = << <<ADD, 0, "y">>, <<REMOVE, 1, "y">> >>

TieBreakWitness ==
    /\ pc = "returned"
    /\ s1 = <<"x", "y">> /\ s2 = <<"y", "x">>
    /\ distances[1][0] = distances[0][1]
    /\ actions[1][1] = REMOVE

(* C6: when a patch text holds lines that do not match the grammar, every  *)
(* such line is reported exactly once with its 1-based line number (the    *)
(* scan goes on to the last line), the command fails with exit code 1, no  *)
(* operation is applied and the target file is left as it was.             *)
CollectThenFail ==
    (/\ pc \in {"done", "raised"}
     /\ \E i \in 1..Len(patchLines) : IsMalformed(patchLines[i]))
    =>
    /\ \A i \in 1..Len(patchLines) :
          IsMalformed(patchLines[i]) =>
             /\ Cardinality(ReportsOf(output, i)) = 1
             /\ \A j \in ReportsOf(output, i) : output[j].line = patchLines[i]
    /\ \A j \in 1..Len(output) : ~WellFormed(patchLines[output[j].row])
    /\ exitCode = 1
    /\ lines = read_entire_file(fileContent)

(* C7: an Add or Remove whose index is out of bounds for the sequence at   *)
(* the moment it executes aborts the invocation with an error and writes   *)
(* no result; it is never clamped, truncated or turned into a no-op.       *)
OutOfRangeFatal ==
    [][(pc = "apply" /\ k > 0 /\ OutOfBounds(NextOp(patch, k), lines))
          => (pc' = "raised" /\ exitCode' = 1 /\ fileContent' = fileContent)]_vars

(* C8: blank lines of a patch text are skipped silently: they record no    *)
(* parse error, produce no operation and do not make the command fail.     *)
BlankLinesSkipped ==
    (pc = "done" /\ \A i \in 1..Len(patchLines) :
                       IsBlank(patchLines[i]) \/ WellFormed(patchLines[i]))
        => (output = <<>> /\ exitCode = 0)

(* C9: the backtrace loop reaches (0, 0) within len(s1) + len(s2)          *)
(* iterations, no coordinate becomes negative, every visited cell holds    *)
(* Add, Remove or Keep (the assertion never fires), and the script holds   *)
(* only Add and Remove operations, at most len(s1) + len(s2) of them.      *)
BacktraceTerminates ==
    /\ pc # "assertion_failed"
    /\ (pc = "backtrace" \/ Returned) =>
          /\ n1 >= 0 /\ n2 >= 0
          /\ iters + n1 + n2 <= Len(s1) + Len(s2)
          /\ Len(patch) <= iters
          /\ Len(patch) <= Len(s1) + Len(s2)
          /\ (n1 > 0 \/ n2 > 0) => actions[n1][n2] \in {ADD, REMOVE, IGNORE}
          /\ \A i \in 1..Len(patch) : patch[i][1] \in {ADD, REMOVE}
    /\ Returned => (n1 = 0 /\ n2 = 0)

BacktraceWitness ==
    /\ pc = "returned"
    /\ Len(s1) = 3 /\ Len(s2) = 3
    /\ iters = 6 /\ Len(patch) = 6

(* C10: deleting from s1 the elements at the Remove indices (highest       *)
(* first), then inserting every Add(j, line) at j (lowest first) yields    *)
(* s2; every Remove(i, l) has l = s1[i] and every Add(j, l) has l = s2[j]. *)
SeparateReplay ==
    pc = "returned" =>
        /\ Cardinality(RemoveIndices(patch)) = Len(RemoveOps(patch))
        /\ Cardinality(AddPairs(patch)) = Len(AddOps(patch))
        /\ ReplaySeparately(s1, patch) = s2
        /\ \A i \in 1..Len(patch) :
              LET op == patch[i]
              IN  IF op[1] = REMOVE
                  THEN op[2] \in 0..(Len(s1) - 1) /\ op[3] = s1[op[2] + 1]
                  ELSE op[2] \in 0..(Len(s2) - 1) /\ op[3] = s2[op[2] + 1]

SeparateReplayWitness ==
    /\ pc = "returned"
    /\ s1 = <<"x", "y", "z">> /\ s2 = <<"z", "y", "y">>
    /\ Len(RemoveOps(patch)) >= 1 /\ Len(AddOps(patch)) >= 1

====
